---- MODULE Spec2Model ----
(***************************************************************************)
(* Model of the stack-resolution pipeline of src/utils/sourcemapParser.ts. *)
(*                                                                         *)
(* The source file holds two revisions of the module, one after the other: *)
(*   rev = 1   lines   1..361  (normalize / containment matcher)           *)
(*   rev = 2   lines 364..691  (getBaseName / exact matcher)               *)
(* They share parseJSONStack, parseTextStack and the body of               *)
(* parseSourceMap; they differ in findMatchingSourceMap and in the         *)
(* `content` field of a resolved frame.  The model carries the revision as *)
(* a variable fixed at Init, so every property is checked on both.         *)
(*                                                                         *)
(* Strings that the code inspects character by character (file names and   *)
(* source paths) are sequences of one-character strings.  An absent, null  *)
(* or empty string is the empty sequence: the code only ever tests these   *)
(* for truthiness.                                                         *)
(***************************************************************************)
EXTENDS Integers, Sequences, FiniteSets, TLC

(***************************************************************************)
(* Bounds of the model.                                                    *)
(***************************************************************************)
MaxDocs == 2
MaxEntries == 2

\* A null number (originalLine / originalColumn / a position's line, column).
NULL == -1

(***************************************************************************)
(* String primitives (String.prototype methods used by the matcher).       *)
(***************************************************************************)
Str_scripts == <<"~", "/", "s", "c", "r", "i", "p", "t", "s", "/">>
Str_js == <<".", "j", "s">>

\* s.startsWith(p)
StartsWith(s, p) ==
  /\ Len(p) <= Len(s)
  /\ SubSeq(s, 1, Len(p)) = p

\* s.endsWith(p)
EndsWith(s, p) ==
  /\ Len(p) <= Len(s)
  /\ SubSeq(s, Len(s) - Len(p) + 1, Len(s)) = p

\* hay.includes(needle): true for the empty needle.
Includes(hay, needle) ==
  \E i \in 0..(Len(hay) - Len(needle)) : SubSeq(hay, i + 1, i + Len(needle)) = needle

\* s.lastIndexOf(c), 1-based; 0 when c does not occur (JavaScript's -1).
LastIndexOf(s, c) ==
  LET hits == {i \in 1..Len(s) : s[i] = c}
  IN  IF hits = {} THEN 0 ELSE CHOOSE i \in hits : \A j \in hits : j <= i

\* One character of toLowerCase over the model's alphabet.
LowerChar(c) ==
  CASE c = "A" -> "a"
    [] c = "B" -> "b"
    [] c = "J" -> "j"
    [] c = "S" -> "s"
    [] OTHER -> c

\* s.toLowerCase()
ToLowerCase(s) == [i \in 1..Len(s) |-> LowerChar(s[i])]

\* s.replace(/^~\/scripts\//, '')
StripScriptsAlias(s) ==
  IF StartsWith(s, Str_scripts) THEN SubSeq(s, Len(Str_scripts) + 1, Len(s)) ELSE s

\* s.replace(/^.*\//, ''): the greedy prefix up to the last slash is removed.
StripDirs(s) ==
  LET k == LastIndexOf(s, "/")
  IN  IF k = 0 THEN s ELSE SubSeq(s, k + 1, Len(s))

\* s.replace(/\.js$/, '')
StripJsSuffix(s) ==
  IF EndsWith(s, Str_js) THEN SubSeq(s, 1, Len(s) - Len(Str_js)) ELSE s

\* source.split('/').pop() || ''
LastSegment(s) == StripDirs(s)

(***************************************************************************)
(* findMatchingSourceMap, revision 1.                                      *)
(***************************************************************************)
\* const normalize = (name) => ...
normalize(name) ==
  ToLowerCase(StripJsSuffix(StripDirs(StripScriptsAlias(name))))

\* The test on map.content.file: equality or containment of normalized names.
MapFileMatches1(mapFile, targetFile) ==
  /\ mapFile # <<>>
  /\ LET normalizedMapFile == normalize(mapFile)
     IN  \/ normalizedMapFile = targetFile
         \/ Includes(normalizedMapFile, targetFile)
         \/ Includes(targetFile, normalizedMapFile)

\* The first loop over map.content.sources.
SourcesMatch1(mapSources, targetFile) ==
  \E k \in 1..Len(mapSources) :
    LET normalizedSource == normalize(mapSources[k])
    IN  \/ normalizedSource = targetFile
        \/ Includes(normalizedSource, targetFile)
        \/ Includes(targetFile, normalizedSource)

\* mapFile && mapFile.includes(targetFile)
MapFileIncludes1(mapFile, targetFile) ==
  /\ mapFile # <<>>
  /\ Includes(mapFile, targetFile)

\* The second loop over map.content.sources.
SourcesInclude1(mapSources, filename, targetFile) ==
  \E k \in 1..Len(mapSources) :
    \/ Includes(mapSources[k], targetFile)
    \/ Includes(filename, LastSegment(mapSources[k]))

\* A `sources` entry that is JSON null (the source map format allows it).
\* source.replace / source.includes on it throws a TypeError.
NullSource == <<"null">>

\* The index of the first null entry of mapSources, 0 when there is none.
FirstNullSource(mapSources) ==
  LET nulls == {k \in 1..Len(mapSources) : mapSources[k] = NullSource}
  IN  IF nulls = {} THEN 0 ELSE CHOOSE k \in nulls : \A j \in nulls : k <= j

\* One iteration of `for (const map of sourceMaps)`: "return" when it
\* returns map, "throw" when normalize(source) throws in the first loop over
\* the sources before anything returns, "next" when it falls through.
DocOutcome1(map, filename) ==
  LET targetFile == normalize(filename)
      mapFile == map.content.file
      mapSources == map.content.sources
      firstNull == FirstNullSource(mapSources)
  IN  IF ~map.hasContent THEN "next"
      ELSE IF MapFileMatches1(mapFile, targetFile) THEN "return"
      ELSE IF firstNull # 0
        THEN IF SourcesMatch1(SubSeq(mapSources, 1, firstNull - 1), targetFile)
               THEN "return" ELSE "throw"
      ELSE IF \/ SourcesMatch1(mapSources, targetFile)
              \/ MapFileIncludes1(mapFile, targetFile)
              \/ SourcesInclude1(mapSources, filename, targetFile)
        THEN "return" ELSE "next"

DocMatches1(map, filename) == DocOutcome1(map, filename) = "return"

(***************************************************************************)
(* findMatchingSourceMap, revision 2.                                      *)
(***************************************************************************)
\* const getBaseName = (path) => ...
getBaseName(path) ==
  LET name == StripDirs(StripScriptsAlias(path))
      lastDot == LastIndexOf(name, ".")
  IN  IF lastDot # 0 THEN SubSeq(name, 1, lastDot - 1) ELSE name

\* One iteration of `for (const map of sourceMaps)`: "return", "throw"
\* (getBaseName(source) on a null source) or "next".
DocOutcome2(map, filename) ==
  LET targetBaseName == getBaseName(filename)
      mapFile == map.content.file
      mapSources == map.content.sources
      firstNull == FirstNullSource(mapSources)
      known == IF firstNull # 0 THEN SubSeq(mapSources, 1, firstNull - 1)
                                ELSE mapSources
  IN  IF ~map.hasContent THEN "next"
      ELSE IF mapFile # <<>> /\ getBaseName(mapFile) = targetBaseName THEN "return"
      ELSE IF \E k \in 1..Len(known) : getBaseName(known[k]) = targetBaseName
        THEN "return"
      ELSE IF firstNull # 0 THEN "throw" ELSE "next"

DocMatches2(map, filename) == DocOutcome2(map, filename) = "return"

\* The scan of findMatchingSourceMap: the index (1-based, 0 for null) of the
\* document it returns, the first in list order whose iteration returns; or
\* that it threw, in an iteration before any that returns.
Scan(r, filename, sourceMaps) ==
  LET out == [i \in 1..Len(sourceMaps) |->
                IF r = 1 THEN DocOutcome1(sourceMaps[i], filename)
                         ELSE DocOutcome2(sourceMaps[i], filename)]
      hits == {i \in 1..Len(sourceMaps) : out[i] # "next"}
      first == IF hits = {} THEN 0 ELSE CHOOSE i \in hits : \A j \in hits : i <= j
  IN  IF first = 0 THEN [doc |-> 0, threw |-> FALSE]
      ELSE IF out[first] = "throw" THEN [doc |-> 0, threw |-> TRUE]
      ELSE [doc |-> first, threw |-> FALSE]

\* What a call of findMatchingSourceMap comes to.
MatchOutcome(r, filename, sourceMaps) ==
  IF filename = <<>> \/ Len(sourceMaps) = 0
    THEN [doc |-> 0, threw |-> FALSE]
    ELSE Scan(r, filename, sourceMaps)

\* The index (1-based, 0 for null) of the document findMatchingSourceMap
\* returns; 0 as well when the call throws and so returns nothing.
findMatchingSourceMap(r, filename, sourceMaps) ==
  MatchOutcome(r, filename, sourceMaps).doc

\* Does the call of findMatchingSourceMap throw?
findMatchingSourceMapThrows(r, filename, sourceMaps) ==
  MatchOutcome(r, filename, sourceMaps).threw

(***************************************************************************)
(* parseJSONStack.                                                         *)
(*                                                                         *)
(* An error text is [form, body].  form is what trim().startsWith and      *)
(* JSON.parse make of it:                                                  *)
(*   "text"     does not start with '[' or '{'; body is its lines          *)
(*   "badjson"  starts with '[' or '{' and JSON.parse throws; body: the    *)
(*              lines after the first                                      *)
(*   "array"    a JSON array written one item per line; body: the items    *)
(*   "object"   a JSON object on one line; body: that one item             *)
(* A JSON item is an object (absent keys carry the falsy value 0 or <<>>:  *)
(* the code reads every key through ||), a string, or null.                *)
(***************************************************************************)
NullFrames == [isNull |-> TRUE, frames |-> <<>>]
Frames(fs) == [isNull |-> FALSE, frames |-> fs]

\* s || t for strings
OrStr(s, t) == IF s # <<>> THEN s ELSE t
\* a || b for numbers
OrNum(a, b) == IF a # 0 THEN a ELSE b

\* The object literal built from one parsed item (the .map callback and the
\* bare-object branch build the same literal).  A JSON string has none of
\* the keys.
FrameOfItem(item) ==
  IF item.kind = "object"
    THEN [filename |-> OrStr(item.filename, item.source),
          function |-> OrStr(item.function, item.functionName),
          line     |-> OrNum(item.lineno, item.line),
          column   |-> OrNum(item.colno, item.column)]
    ELSE [filename |-> <<>>, function |-> <<>>, line |-> 0, column |-> 0]

\* .filter(item => item.filename && item.line > 0)
WellFormedFrame(f) == f.filename # <<>> /\ f.line > 0

\* if (parsed.filename && (parsed.lineno || parsed.line))
BareObjectAccepted(item) ==
  /\ item.kind = "object"
  /\ item.filename # <<>>
  /\ (item.lineno # 0 \/ item.line # 0)

parseJSONStack(errorInfo) ==
  CASE errorInfo.form \in {"text", "badjson"} -> NullFrames
    [] errorInfo.form = "array" ->
         \* reading a key of a null item throws: caught, null
         IF \E k \in 1..Len(errorInfo.body) : errorInfo.body[k].kind = "null"
           THEN NullFrames
           ELSE Frames(SelectSeq([k \in 1..Len(errorInfo.body) |->
                                    FrameOfItem(errorInfo.body[k])],
                                 WellFormedFrame))
    [] errorInfo.form = "object" ->
         IF BareObjectAccepted(errorInfo.body[1])
           THEN Frames(<<FrameOfItem(errorInfo.body[1])>>)
           ELSE NullFrames

(***************************************************************************)
(* parseTextStack.                                                         *)
(*                                                                         *)
(* A line is [shape, function, filename, line, column]:                    *)
(*   "blank"        empty after trim                                       *)
(*   "other"        text no pattern matches ("Error: boom", "[", ...)      *)
(*   "atFuncParen"  at FUNC (FILE:LINE:COL)                                *)
(*   "atFile"       at FILE:LINE:COL                                       *)
(*   "bare"         FILE:LINE:COL                                          *)
(*   "bareLineOnly"         FILE:LINE          (no column in the text)     *)
(*   "atFuncParenLineOnly"  at FUNC (FILE:LINE)                            *)
(* A JSON string item sits on its line inside quotes; a JSON object or     *)
(* null item is text no pattern matches.                                   *)
(***************************************************************************)
OtherLine == [shape |-> "other", quoted |-> FALSE, function |-> <<>>,
              filename |-> <<>>, line |-> 0, column |-> 0]

\* errorInfo.split('\n'), one record per line.  A "badjson" text is a first
\* line "[" or "{" and then its body; an "array" text is "[", one line per
\* item and "]".
LinesOf(errorInfo) ==
  CASE errorInfo.form = "text" -> errorInfo.body
    [] errorInfo.form = "badjson" -> <<OtherLine>> \o errorInfo.body
    [] errorInfo.form = "array" ->
         <<OtherLine>>
           \o [k \in 1..Len(errorInfo.body) |->
                 IF errorInfo.body[k].kind = "string"
                   THEN [errorInfo.body[k].text EXCEPT !.quoted = TRUE]
                   ELSE OtherLine]
           \o <<OtherLine>>
    [] errorInfo.form = "object" -> <<OtherLine>>

NoMatch == [matched |-> FALSE, length |-> 0, function |-> <<>>,
            filename |-> <<>>, line |-> 0, column |-> 0]

\* /at\s+(.+?)\s+\((.+?):(\d+):(\d+)\)/  -- unanchored, five groups
Pattern1(l) ==
  IF l.shape = "atFuncParen"
    THEN [matched |-> TRUE, length |-> 5, function |-> l.function,
          filename |-> l.filename, line |-> l.line, column |-> l.column]
    ELSE NoMatch

\* /at\s+(.+?):(\d+):(\d+)/  -- unanchored, four groups.  On an
\* "at FUNC (FILE:L:C)" line group 1 is "FUNC (FILE".
Pattern2(l) ==
  CASE l.shape = "atFile" ->
         [matched |-> TRUE, length |-> 4, function |-> <<>>,
          filename |-> l.filename, line |-> l.line, column |-> l.column]
    [] l.shape = "atFuncParen" ->
         [matched |-> TRUE, length |-> 4, function |-> <<>>,
          filename |-> l.function \o <<" ", "(">> \o l.filename,
          line |-> l.line, column |-> l.column]
    [] OTHER -> NoMatch

\* /^(.+?):(\d+):(\d+)$/  -- anchored at both ends, four groups.  On an
\* "at FILE:L:C" line group 1 is "at FILE"; a quoted line ends in a quote.
Pattern3(l) ==
  CASE l.quoted -> NoMatch
    [] l.shape = "bare" ->
         [matched |-> TRUE, length |-> 4, function |-> <<>>,
          filename |-> l.filename, line |-> l.line, column |-> l.column]
    [] l.shape = "atFile" ->
         [matched |-> TRUE, length |-> 4, function |-> <<>>,
          filename |-> <<"a", "t", " ">> \o l.filename,
          line |-> l.line, column |-> l.column]
    [] OTHER -> NoMatch

\* Mutant: the patterns tried from the last to the first.
MatchLine_LastFirst(l) ==
  CASE Pattern3(l).matched -> Pattern3(l)
    [] Pattern2(l).matched -> Pattern2(l)
    [] Pattern1(l).matched -> Pattern1(l)
    [] OTHER -> NoMatch

\* The inner `for (const pattern of patterns)`: the first pattern that
\* matches decides the line.
MatchLine(l) ==
  CASE Pattern1(l).matched -> Pattern1(l)
    [] Pattern2(l).matched -> Pattern2(l)
    [] Pattern3(l).matched -> Pattern3(l)
    [] OTHER -> NoMatch

\* The frames pushed for the lines k..Len(lines), in order.
RECURSIVE TextFrames(_, _)
TextFrames(lines, k) ==
  IF k > Len(lines) THEN <<>>
  ELSE LET l == lines[k]
           m == MatchLine(l)
       IN  (IF l.shape # "blank" /\ m.matched
              THEN <<[filename |-> m.filename, function |-> m.function,
                      line |-> m.line, column |-> m.column]>>
              ELSE <<>>) \o TextFrames(lines, k + 1)

parseTextStack(errorInfo) ==
  LET results == TextFrames(LinesOf(errorInfo), 1)
  IN  IF Len(results) > 0 THEN Frames(results) ELSE NullFrames

\* !errorInfo || !errorInfo.trim()
IsBlankText(errorInfo) ==
  /\ errorInfo.form = "text"
  /\ \A k \in 1..Len(errorInfo.body) : errorInfo.body[k].shape = "blank"

\* let stackFrames = parseJSONStack(errorInfo)
\* if (!stackFrames) stackFrames = parseTextStack(errorInfo)
ParseStack(errorInfo) ==
  IF ~parseJSONStack(errorInfo).isNull
    THEN parseJSONStack(errorInfo)
    ELSE parseTextStack(errorInfo)

(***************************************************************************)
(* The mapping decoder (the source-map library), as parseSourceMap uses    *)
(* it.  A document's content is [version, file, sources, sourcesContent,   *)
(* mappings]; mappings is the decoded table, a set of                      *)
(* [gl, gc, source, line, column, name] with (gl, gc) unique.              *)
(***************************************************************************)
NullPosition == [source |-> <<>>, line |-> NULL, column |-> NULL, name |-> <<>>]

PositionOf(m) ==
  [source |-> m.source, line |-> m.line, column |-> m.column, name |-> m.name]

\* SourceMapConsumer.with(content, null, callback) constructs the consumer
\* and then calls the callback; the constructor throws on a version other
\* than 3, the promise `with` returns rejects and the callback never runs.
Constructible(content) == content.version = 3

\* consumer.originalPositionFor({line, column}).  The library answers with
\* the mapping at the greatest column <= column on that line ("glb"); a
\* decoder that answers exact (line, column) queries only is "exact".
originalPositionFor(content, b, line, column) ==
  LET onLine == {m \in content.mappings : m.gl = line}
      exact  == {m \in onLine : m.gc = column}
      below  == {m \in onLine : m.gc <= column}
  IN  IF b = "exact"
        THEN IF exact = {} THEN NullPosition
             ELSE PositionOf(CHOOSE m \in exact : TRUE)
        ELSE IF below = {} THEN NullPosition
             ELSE PositionOf(CHOOSE m \in below : \A n \in below : n.gc <= m.gc)

\* The mappings string is decoded at the first query; a malformed one makes
\* originalPositionFor throw, at every query.
QueryThrows(content) == ~content.mappingsValid

\* consumer.sourceContentFor(source) inside try/catch: the embedded text of
\* the source, null (<<>>) when the document embeds none or throws.
sourceContentFor(content, source) ==
  LET hits == {k \in 1..Len(content.sources) : content.sources[k] = source}
  IN  IF content.sourcesContent = <<>> \/ hits = {} THEN <<>>
      ELSE content.sourcesContent[CHOOSE k \in hits : \A j \in hits : k <= j]

(***************************************************************************)
(* The column search of parseSourceMap.                                    *)
(***************************************************************************)
Max(a, b) == IF a >= b THEN a ELSE b
Abs(a) == IF a >= 0 THEN a ELSE 0 - a

\* const queryLine = Math.max(1, frame.line)
QueryLine(frame) == Max(1, frame.line)
\* const queryColumn = Math.max(0, frame.column - 1)
QueryColumn(frame) == Max(0, frame.column - 1)

\* Mutant: column 0 is not pushed.
tryColumns_NoZero(queryColumn) ==
  <<queryColumn>>
    \o (IF queryColumn > 1 THEN <<queryColumn - 1>> ELSE <<>>)
    \o (IF queryColumn > 2 THEN <<queryColumn - 2>> ELSE <<>>)
    \o <<queryColumn + 1, queryColumn + 2>>

\* The pushes onto tryColumns, in order.
tryColumns(queryColumn) ==
  <<queryColumn>>
    \o (IF queryColumn > 0 THEN <<0>> ELSE <<>>)
    \o (IF queryColumn > 1 THEN <<queryColumn - 1>> ELSE <<>>)
    \o (IF queryColumn > 2 THEN <<queryColumn - 2>> ELSE <<>>)
    \o <<queryColumn + 1, queryColumn + 2>>

\* [...new Set(xs)]: the first occurrence of each value, in insertion order.
RECURSIVE Dedupe(_)
Dedupe(xs) ==
  IF xs = <<>> THEN <<>>
  ELSE LET front == Dedupe(SubSeq(xs, 1, Len(xs) - 1))
           x == xs[Len(xs)]
       IN  IF \E k \in 1..Len(front) : front[k] = x THEN front ELSE Append(front, x)

\* Array.prototype.sort with (a, b) => |a - q| - |b - q|: stable, so equal
\* distances keep their order.  x goes after every element not farther.
InsertByDistance(sorted, x, q) ==
  LET n == Cardinality({k \in 1..Len(sorted) : Abs(sorted[k] - q) <= Abs(x - q)})
  IN  SubSeq(sorted, 1, n) \o <<x>> \o SubSeq(sorted, n + 1, Len(sorted))

RECURSIVE SortByDistance(_, _)
SortByDistance(xs, q) ==
  IF xs = <<>> THEN <<>>
  ELSE InsertByDistance(SortByDistance(SubSeq(xs, 1, Len(xs) - 1), q), xs[Len(xs)], q)

\* Mutant: the candidates left in the order they were pushed.
uniqueColumns_Unsorted(queryColumn) == Dedupe(tryColumns(queryColumn))

\* [...new Set(tryColumns)].sort(...)
uniqueColumns(queryColumn) ==
  SortByDistance(Dedupe(tryColumns(queryColumn)), queryColumn)

\* for (const col of uniqueColumns) { ... break on the first position with
\* a source }: the position kept and the columns queried, from candidate k.
RECURSIVE TryEach(_, _, _, _, _)
TryEach(content, b, queryLine, cols, k) ==
  IF k > Len(cols) THEN [position |-> NullPosition, queried |-> <<>>]
  ELSE IF cols[k] < 0 THEN TryEach(content, b, queryLine, cols, k + 1)
  ELSE LET testPosition == originalPositionFor(content, b, queryLine, cols[k])
       IN  IF testPosition.source # <<>>
             THEN [position |-> testPosition, queried |-> <<cols[k]>>]
             ELSE LET rest == TryEach(content, b, queryLine, cols, k + 1)
                  IN  [position |-> rest.position,
                       queried |-> <<cols[k]>> \o rest.queried]

\* Mutant: one query at the requested column and nothing else.
FindPosition_ExactOnly(content, b, queryLine, queryColumn) ==
  [position |-> originalPositionFor(content, b, queryLine, queryColumn),
   queried |-> <<queryColumn>>]

\* The candidate loop followed by the last query at column 0.
FindPosition(content, b, queryLine, queryColumn) ==
  LET tried == TryEach(content, b, queryLine, uniqueColumns(queryColumn), 1)
      firstCol == originalPositionFor(content, b, queryLine, 0)
  IN  IF tried.position.source # <<>>
        THEN tried
        ELSE [position |-> IF firstCol.source # <<>> THEN firstCol ELSE tried.position,
              queried |-> Append(tried.queried, 0)]

(***************************************************************************)
(* The frames parseSourceMap pushes onto results.                          *)
(***************************************************************************)
Str_anonymous == <<"(", "a", "n", "o", "n", "y", "m", "o", "u", "s", ")">>

\* Revision 1 pushes no content key; revision 2 pushes content (null here).
Str_undefined == <<"u", "n", "d", "e", "f", "i", "n", "e", "d">>

\* Mutant: the compiled line copied into originalLine.
UnmappedFrame_LineAsOriginal(r, frame) ==
  [functionName   |-> OrStr(frame.function, Str_anonymous),
   source         |-> frame.filename,
   originalSource |-> frame.filename,
   originalLine   |-> frame.line,
   originalColumn |-> NULL,
   line           |-> frame.line,
   column         |-> frame.column,
   hasMapping     |-> FALSE,
   content        |-> IF r = 1 THEN Str_undefined ELSE <<>>]

\* The literal pushed when no document matches, when no position is found
\* and in the catch block.
UnmappedFrame(r, frame) ==
  [functionName   |-> OrStr(frame.function, Str_anonymous),
   source         |-> frame.filename,
   originalSource |-> frame.filename,
   originalLine   |-> NULL,
   originalColumn |-> NULL,
   line           |-> frame.line,
   column         |-> frame.column,
   hasMapping     |-> FALSE,
   content        |-> IF r = 1 THEN Str_undefined ELSE <<>>]

\* Mutant: the column left 0-based.
OriginalColumn_ZeroBased(position) == position.column

\* originalPosition.column !== null ? originalPosition.column + 1 : null
OriginalColumn(position) ==
  IF position.column # NULL THEN position.column + 1 ELSE NULL

\* The literal pushed when originalPosition && originalPosition.source.
MappedFrame(r, frame, content, position) ==
  [functionName   |-> OrStr(OrStr(frame.function, position.name), Str_anonymous),
   source         |-> position.source,
   originalSource |-> frame.filename,
   originalLine   |-> position.line,
   originalColumn |-> OriginalColumn(position),
   line           |-> frame.line,
   column         |-> frame.column,
   hasMapping     |-> TRUE,
   content        |-> IF r = 1 THEN Str_undefined
                      ELSE sourceContentFor(content, position.source)]

\* The literal pushed by the catch block around the loop body.
CaughtFrame(r, frame) ==
  [functionName   |-> OrStr(frame.function, Str_anonymous),
   source         |-> frame.filename,
   originalSource |-> frame.filename,
   originalLine   |-> NULL,
   originalColumn |-> NULL,
   line           |-> frame.line,
   column         |-> frame.column,
   hasMapping     |-> FALSE,
   content        |-> IF r = 1 THEN Str_undefined ELSE <<>>]

\* The frame pushed once the consumer is at hand and no query throws.
ResolveFrame(r, frame, content, b) ==
  LET found == FindPosition(content, b, QueryLine(frame), QueryColumn(frame))
  IN  IF found.position.source # <<>>
        THEN MappedFrame(r, frame, content, found.position)
        ELSE UnmappedFrame(r, frame)

(***************************************************************************)
(* formatPathForCopy, the path normalizer of the copy actions.             *)
(***************************************************************************)
Str_upup  == <<".", ".", "/", ".", ".", "/">>
Str_up    == <<".", ".", "/">>
Str_here  == <<".", "/">>
Str_src   == <<"s", "r", "c", "/">>
Str_slash == <<"/">>

\* s.replace(/^p/, '') for a literal p: one occurrence at the start.
StripPrefix(s, p) ==
  IF StartsWith(s, p) THEN SubSeq(s, Len(p) + 1, Len(s)) ELSE s

\* while (normalized.startsWith('../')) normalized = normalized.substring(3)
RECURSIVE StripParents(_)
StripParents(s) ==
  IF StartsWith(s, Str_up) THEN StripParents(SubSeq(s, 4, Len(s))) ELSE s

\* s.indexOf(sub), 1-based; 0 for -1.
IndexOf(s, sub) ==
  LET hits == {i \in 1..(Len(s) - Len(sub) + 1) :
                 SubSeq(s, i, i + Len(sub) - 1) = sub}
  IN  IF hits = {} THEN 0 ELSE CHOOSE i \in hits : \A j \in hits : i <= j

\* Mutant: the slash is prepended whether or not the path has one.
EnsureLeadingSlash_Always(s) == Str_slash \o s

\* else if (!normalized.startsWith('/')) normalized = '/' + normalized
EnsureLeadingSlash(s) ==
  IF ~StartsWith(s, Str_slash) THEN Str_slash \o s ELSE s

\* The four .replace calls, each once, and then the while loop.
StripLeading(path) ==
  StripParents(StripScriptsAlias(StripPrefix(StripPrefix(
    StripPrefix(path, Str_upup), Str_up), Str_here)))

formatPathForCopy(path) ==
  IF path = <<>> THEN <<>>
  ELSE
    LET normalized == StripLeading(path)
        srcIndex == IndexOf(normalized, Str_slash \o Str_src)
        srcIndexAlt == IndexOf(normalized, Str_src)
    IN  IF srcIndex # 0
          THEN SubSeq(normalized, srcIndex, Len(normalized))
          ELSE IF srcIndexAlt # 0
            THEN Str_slash \o SubSeq(normalized, srcIndexAlt, Len(normalized))
            ELSE EnsureLeadingSlash(normalized)

(***************************************************************************)
(* The inputs the model draws from.                                        *)
(***************************************************************************)
F_app   == <<"a", "p", "p", ".", "j", "s">>
F_a     == <<"a", ".", "j", "s">>
F_bad   == <<"b", "a", "d", ".", "j", "s">>
F_myapp == <<"m", "y", "a", "p", "p", ".", "j", "s">>
F_alias == Str_scripts \o <<"A", "p", "p", ".", "j", "s">>
S_app   == <<"s", "r", "c", "/", "a", "p", "p", ".", "t", "s">>
S_my    == <<"s", "r", "c", "/", "m", "y", ".", "t", "s">>
S_lib   == <<"l", "i", "b", "/", "a", "p", "p", "/", "i", "n", "d", "e", "x", ".", "t", "s">>
Fn_f    == <<"f">>
Fn_h    == <<"h">>
Txt_app == <<"c", "o", "d", "e">>

Mapping(gl, gc, source, line, column, name) ==
  [gl |-> gl, gc |-> gc, source |-> source, line |-> line, column |-> column,
   name |-> name]

Document(name, version, file, sources, sourcesContent, mappings) ==
  [name |-> name, hasContent |-> TRUE,
   content |-> [version |-> version, file |-> file, sources |-> sources,
                sourcesContent |-> sourcesContent, mappings |-> mappings,
                mappingsValid |-> TRUE]]

\* app.js: one mapping at column 0 of line 1, two mappings inside line 2.
DocApp ==
  Document("app.js.map", 3, F_app, <<S_app>>, <<Txt_app>>,
           {Mapping(1, 0, S_app, 10, 4, <<>>),
            Mapping(2, 3, S_app, 20, 0, Fn_h),
            Mapping(2, 6, S_app, 21, 7, <<>>)})

\* myapp.js: its name contains "app"; column 0 of line 1 carries a source
\* and neither line nor column, column 2 a segment with no source.
DocMyApp ==
  Document("myapp.js.map", 3, F_myapp, <<S_my>>, <<>>,
           {Mapping(1, 0, S_my, NULL, NULL, <<>>),
            Mapping(1, 2, <<>>, NULL, NULL, <<>>)})

\* No file key; one source under a directory called app.
DocLib ==
  Document("lib.map", 3, <<>>, <<S_lib>>, <<>>,
           {Mapping(1, 0, S_lib, 3, 0, <<>>)})

\* bad.js: a version the decoder does not support.
DocBad ==
  Document("bad.js.map", 2, F_bad, <<>>, <<>>, {})

\* x.js: a mappings string the decoder cannot decode.
F_x == <<"x", ".", "j", "s">>
DocCorrupt ==
  [Document("x.js.map", 3, F_x, <<>>, <<>>, {})
     EXCEPT !.content.mappingsValid = FALSE]

\* y.js: "sources": [null].
F_y == <<"y", ".", "j", "s">>
DocNullSource ==
  Document("y.js.map", 3, F_y, <<NullSource>>, <<>>, {})

\* No file key; "sources": ["src/"], a path that ends in a slash.
DocSlash ==
  Document("slash.map", 3, <<>>, <<Str_src>>, <<>>, {})

DocPool == {DocApp, DocMyApp, DocLib, DocBad}

Line(shape, function, filename, line, column) ==
  [shape |-> shape, quoted |-> FALSE, function |-> function,
   filename |-> filename, line |-> line, column |-> column]

BlankLine == Line("blank", <<>>, <<>>, 0, 0)

\* "Error: boom" / "at f (app.js:1:50)" / "at bad.js:1:1" / "a.js:5:10"
LinePool ==
  {BlankLine, OtherLine,
   Line("atFuncParen", Fn_f, F_app, 1, 50),
   Line("atFile", <<>>, F_bad, 1, 1),
   Line("bare", <<>>, F_a, 5, 10)}

ObjectItem(filename, source, lineno, line, colno, column, function, functionName) ==
  [kind |-> "object", filename |-> filename, source |-> source,
   lineno |-> lineno, line |-> line, colno |-> colno, column |-> column,
   function |-> function, functionName |-> functionName]

StringItem(text) == [kind |-> "string", text |-> text]
NullItem == [kind |-> "null"]

\* {"filename":"a.js","lineno":5,"colno":10}
\* {"source":"myapp.js","line":1,"column":1,"functionName":"f"}
\* {"filename":"app.js","lineno":0,"colno":7}
\* "at f (app.js:1:50)"
\* null
ItemPool ==
  {ObjectItem(F_a, <<>>, 5, 0, 10, 0, <<>>, <<>>),
   ObjectItem(<<>>, F_myapp, 0, 1, 0, 1, <<>>, Fn_f),
   ObjectItem(F_app, <<>>, 0, 0, 7, 0, <<>>, <<>>),
   StringItem(Line("atFuncParen", Fn_f, F_app, 1, 50)),
   NullItem}

\* Sequences of at most n elements of S.
RECURSIVE SeqsUpTo(_, _)
SeqsUpTo(S, n) ==
  IF n = 0 THEN {<<>>}
  ELSE LET shorter == SeqsUpTo(S, n - 1)
       IN  shorter \cup {Append(q, x) : q \in shorter, x \in S}

Text(form, body) == [form |-> form, body |-> body]

\* Columns a single frame asks for on lines 1 and 2 of app.js.
ColumnPool == {0, 1, 2, 3, 4, 5, 50, 51}

\* "at f (app.js:1:50)" / "at bad.js:1:1"
TwoFrames ==
  Text("text", <<Line("atFuncParen", Fn_f, F_app, 1, 50),
                 Line("atFile", <<>>, F_bad, 1, 1)>>)

\* Three frames, the middle one of x.js:
\* "at f (app.js:1:50)" / "at x.js:1:1" / "at app.js:2:4"
ThreeFrames ==
  Text("text", <<Line("atFuncParen", Fn_f, F_app, 1, 50),
                 Line("atFile", <<>>, F_x, 1, 1),
                 Line("atFile", <<>>, F_app, 2, 4)>>)

\* {"filename":"a.js","lineno":-1,"colno":1}
\* {"filename":"a.js","lineno":-1,"line":5,"colno":1}
\* {"source":"a.js","lineno":5,"colno":1}
\* {"filename":"app.js","lineno":1,"colno":-5}
EdgeItems ==
  {ObjectItem(F_a, <<>>, -1, 0, 1, 0, <<>>, <<>>),
   ObjectItem(F_a, <<>>, -1, 5, 1, 0, <<>>, <<>>),
   ObjectItem(<<>>, F_a, 5, 0, 1, 0, <<>>, <<>>),
   ObjectItem(F_app, <<>>, 1, 0, -5, 0, <<>>, <<>>)}

\* "a.js:0:5" / "at a.js:0:5" / "a.js:5" / "at f (app.js:1)"
EdgeLines ==
  {Line("bare", <<>>, F_a, 0, 5),
   Line("atFile", <<>>, F_a, 0, 5),
   Line("bareLineOnly", <<>>, F_a, 5, 0),
   Line("atFuncParenLineOnly", Fn_f, F_app, 1, 0)}

\* "at f (app.js:1)" / "at bad.js:1:1"
LineOnlyThenFrame ==
  Text("text", <<Line("atFuncParenLineOnly", Fn_f, F_app, 1, 0),
                 Line("atFile", <<>>, F_bad, 1, 1)>>)

\* File names a frame can carry into `source`, as formatPathForCopy gets them.
PathPool ==
  {F_a,
   Str_here \o F_a,
   Str_here \o Str_here \o F_a,
   Str_up \o F_a,
   Str_upup \o Str_up \o F_a,
   Str_upup \o Str_upup \o Str_up \o F_a,
   Str_up \o Str_here \o F_a,
   Str_scripts \o F_a,
   Str_scripts \o Str_scripts \o F_a,
   Str_here \o Str_scripts \o F_a,
   Str_scripts \o Str_here \o F_a,
   Str_scripts \o Str_up \o F_a,
   Str_slash \o F_a,
   Str_slash \o Str_slash \o F_a,
   Str_slash \o Str_src \o F_a,
   Str_src \o F_a,
   <<"l">> \o Str_slash \o Str_src \o F_a,
   <<"m", "y">> \o Str_src \o F_a,
   <<"l", "/", "m", "y">> \o Str_src \o F_a,
   Str_up \o Str_src \o Str_src \o F_a}

ErrorTexts ==
  {Text("text", b) : b \in SeqsUpTo(LinePool, MaxEntries)}
    \cup {Text("array", b) : b \in SeqsUpTo(ItemPool, MaxEntries)}
    \cup {Text("object", <<x>>) : x \in {i \in ItemPool : i.kind = "object"}}
    \cup {Text("badjson", <<l>>) : l \in LinePool}
    \cup {Text("text", <<Line("atFile", <<>>, f, l, c)>>) :
            f \in {F_app, F_alias}, l \in {1, 2}, c \in ColumnPool}
    \cup {ThreeFrames}
    \cup {Text("object", <<x>>) : x \in EdgeItems}
    \cup {Text("array", <<x>>) : x \in EdgeItems}
    \cup {Text("text", <<l>>) : l \in EdgeLines}
    \cup {LineOnlyThenFrame}
    \cup {Text("text", <<Line("bare", <<>>, p, 1, 1)>>) : p \in PathPool}

\* Lists with a document whose queries throw, one with a null source, or
\* one with a source that ends in a slash.
EdgeLists ==
  {<<DocCorrupt>>, <<DocApp, DocCorrupt>>, <<DocCorrupt, DocApp>>,
   <<DocNullSource>>, <<DocApp, DocNullSource>>, <<DocNullSource, DocApp>>,
   <<DocSlash>>, <<DocSlash, DocApp>>}

SourceMapLists == SeqsUpTo(DocPool, MaxDocs) \cup EdgeLists

\* The texts every list of documents is tried with: one line or one array
\* entry each, and the texts of two and three frames.
CoreTexts ==
  {Text("text", <<l>>) : l \in LinePool}
    \cup {Text("array", <<x>>) : x \in ItemPool}
    \cup {Text("text", <<Line("atFile", <<>>, F_alias, 1, 50)>>)}
    \cup {TwoFrames, ThreeFrames}

\* The lists of documents every text is tried with.
CoreLists ==
  {<<>>} \cup {<<d>> : d \in DocPool} \cup EdgeLists
    \cup {<<DocMyApp, DocApp>>, <<DocBad, DocApp>>}

\* An invocation that has not been called yet.
NotStarted(docs, text) ==
  [sourceMaps |-> docs, errorInfo |-> text, pc |-> "start",
   stackFrames |-> <<>>, idx |-> 0, matchedMap |-> 0,
   consumerCache |-> {}, results |-> <<>>, error |-> "none",
   matchCalls |-> 0, decodeCalls |-> <<>>,
   queryLog |-> <<>>, matchLog |-> <<>>, copied |-> <<>>,
   superseded |-> FALSE]

\* The calls made when more than one invocation is in flight.
Job(docs, text) == [sourceMaps |-> docs, errorInfo |-> text]

JobPool ==
  {Job(<<DocApp>>, TwoFrames),
   Job(<<DocApp>>, Text("text", <<Line("atFile", <<>>, F_bad, 1, 1)>>)),
   Job(<<DocMyApp, DocApp>>, TwoFrames),
   Job(<<DocBad, DocApp>>, TwoFrames)}

\* The invocations that are not running at the start: none, one or two.
OthersPool ==
  {<<>>}
    \cup {<<NotStarted(j.sourceMaps, j.errorInfo)>> : j \in JobPool}
    \cup {<<NotStarted(j.sourceMaps, j.errorInfo),
            NotStarted(k.sourceMaps, k.errorInfo)>> : j, k \in JobPool}

\* The state of App (its useState values) with documents uploaded and
\* nothing parsed.
Mounted(docs) ==
  [mounted |-> TRUE, sourceMaps |-> docs, parsedStack |-> NullFrames,
   isProcessing |-> FALSE, errorMessage |-> "none"]

\* parseSourceMap called with no App around it.
NoApp ==
  [mounted |-> FALSE, sourceMaps |-> <<>>, parsedStack |-> NullFrames,
   isProcessing |-> FALSE, errorMessage |-> "none"]

(***************************************************************************)
(* Invocations of parseSourceMap(sourceMaps, errorInfo).                   *)
(*                                                                         *)
(* The variables from sourceMaps to copied are the arguments and locals of *)
(* the invocation the event loop is running; `others` holds the same for   *)
(* the invocations that are not running: not called yet, suspended at an   *)
(* await, or settled.  Nothing in the module is shared between them.       *)
(***************************************************************************)
VARIABLES
  rev,            \* the revision of the module: 1 or 2
  bias,           \* how the decoder answers a query: "glb" or "exact"
  sourceMaps,     \* argument: the documents, in upload order
  errorInfo,      \* argument: the error text
  pc,             \* "start", "loop", "decode", "resolve", "pending",
                  \* "returned", "rejected"
  stackFrames,    \* the parsed frames
  idx,            \* the frame `for (const frame of stackFrames)` is at
  matchedMap,     \* index in sourceMaps of the current frame's document
  consumerCache,  \* the documents (by index) that have a consumer
  results,        \* the frames pushed so far
  error,          \* what the promise was rejected with
  matchCalls,     \* calls of findMatchingSourceMap
  decodeCalls,    \* documents SourceMapConsumer.with was called on, in order
  queryLog,       \* the columns queried for the frame resolved last
  matchLog,       \* what each call of findMatchingSourceMap came to
  copied,         \* the paths copyAllStack made of the returned results
  superseded,     \* a later call was made while this one was at an await
  others,         \* the invocations that are not running
  app             \* the state of the App component that made the call

vars == <<rev, bias, sourceMaps, errorInfo, pc, stackFrames, idx, matchedMap,
          consumerCache, results, error, matchCalls, decodeCalls, queryLog,
          matchLog, copied, superseded, others, app>>

\* The running invocation, as `others` would hold it.
Self ==
  [sourceMaps |-> sourceMaps, errorInfo |-> errorInfo, pc |-> pc,
   stackFrames |-> stackFrames, idx |-> idx, matchedMap |-> matchedMap,
   consumerCache |-> consumerCache, results |-> results, error |-> error,
   matchCalls |-> matchCalls, decodeCalls |-> decodeCalls,
   queryLog |-> queryLog, matchLog |-> matchLog, copied |-> copied,
   superseded |-> superseded]

\* One invocation on its own, over every list of documents with the core
\* texts and over every text with the core lists; or two or three
\* invocations over the jobs of JobPool; or an App with the documents and
\* the text of a job of JobPool, its parse button not clicked yet.
Init ==
  /\ rev \in {1, 2}
  /\ bias \in {"glb", "exact"}
  /\ \/ /\ sourceMaps \in SourceMapLists
        /\ errorInfo \in CoreTexts
        /\ others = <<>>
        /\ app = NoApp
     \/ /\ sourceMaps \in CoreLists
        /\ errorInfo \in ErrorTexts
        /\ others = <<>>
        /\ app = NoApp
     \/ /\ \E job \in JobPool :
             sourceMaps = job.sourceMaps /\ errorInfo = job.errorInfo
        /\ others \in OthersPool \ {<<>>}
        /\ app = NoApp
     \/ /\ \E job \in JobPool :
             /\ sourceMaps = job.sourceMaps
             /\ errorInfo = job.errorInfo
             /\ app = Mounted(job.sourceMaps)
        /\ others = <<>>
  /\ pc = "start"
  /\ stackFrames = <<>>
  /\ idx = 0
  /\ matchedMap = 0
  /\ consumerCache = {}
  /\ results = <<>>
  /\ error = "none"
  /\ matchCalls = 0
  /\ decodeCalls = <<>>
  /\ queryLog = <<>>
  /\ matchLog = <<>>
  /\ copied = <<>>
  /\ superseded = FALSE

\* [{"filename":"file.js","lineno":1,"colno":100}]
F_file == <<"f", "i", "l", "e", ".", "j", "s">>
UsageExample ==
  Text("array", <<ObjectItem(F_file, <<>>, 1, 0, 100, 0, <<>>, <<>>)>>)

\* The message of the Error thrown for each kind of rejection, by what it is
\* made of: the fixed text (revision 2 words it in English, revision 1 in
\* Chinese), the example of an error text it ends with, and the part of the
\* argument errorInfo put into it.  Every message is one string literal.
Message(kind, text) ==
  CASE kind = "noSourceMaps" ->
         [head |-> "Please upload sourcemap files first",
          example |-> <<>>, errorText |-> <<>>]
    [] kind = "noErrorInfo" ->
         [head |-> "Please enter error information",
          example |-> <<>>, errorText |-> <<>>]
    [] kind = "unparseable" ->
         [head |-> "Unable to parse error stack. Please ensure the format is correct, e.g.:",
          example |-> <<UsageExample>>, errorText |-> <<>>]
    [] kind = "noResults" ->
         [head |-> "No results parsed",
          example |-> <<>>, errorText |-> <<>>]

\* Mutant: the check of stackFrames.length left out.
InputError_NullOnly(docs, text) ==
  CASE Len(docs) = 0 -> "noSourceMaps"
    [] IsBlankText(text) -> "noErrorInfo"
    [] ParseStack(text).isNull -> "unparseable"
    [] OTHER -> "none"

\* The checks and the parse that open parseSourceMap.
InputError(docs, text) ==
  CASE Len(docs) = 0 -> "noSourceMaps"
    [] IsBlankText(text) -> "noErrorInfo"
    [] ParseStack(text).isNull \/ Len(ParseStack(text).frames) = 0 -> "unparseable"
    [] OTHER -> "none"

Validate ==
  /\ pc = "start"
  /\ app.mounted => app.isProcessing
  /\ IF InputError(sourceMaps, errorInfo) # "none"
       THEN /\ pc' = "rejected"
            /\ error' = InputError(sourceMaps, errorInfo)
            /\ UNCHANGED <<stackFrames, idx>>
       ELSE /\ pc' = "loop"
            /\ stackFrames' = ParseStack(errorInfo).frames
            /\ idx' = 1
            /\ UNCHANGED error
  /\ others' = [j \in 1..Len(others) |->
                  IF others[j].pc \in {"decode", "resolve"}
                    THEN [others[j] EXCEPT !.superseded = TRUE]
                    ELSE others[j]]
  /\ UNCHANGED <<app, rev, bias, sourceMaps, errorInfo, matchedMap, consumerCache,
                 results, matchCalls, decodeCalls, queryLog, matchLog, copied,
                 superseded>>

\* What the matcher comes to for the frame the loop is at.
Matched == MatchOutcome(rev, stackFrames[idx].filename, sourceMaps)

\* The entry of matchLog for the frame the loop is at.
Logged(doc, threw) ==
  [filename |-> stackFrames[idx].filename, doc |-> doc, threw |-> threw]

\* Mutant: `continue` without the push.
FrameUnmatched_Drop ==
  /\ pc = "loop"
  /\ idx <= Len(stackFrames)
  /\ Matched = [doc |-> 0, threw |-> FALSE]
  /\ matchCalls' = matchCalls + 1
  /\ matchLog' = Append(matchLog, Logged(0, FALSE))
  /\ idx' = idx + 1
  /\ UNCHANGED <<app, rev, bias, sourceMaps, errorInfo, pc, stackFrames, matchedMap,
                 consumerCache, results, error, decodeCalls, queryLog, copied,
                 superseded, others>>

\* A loop iteration whose frame matches no document.
FrameUnmatched ==
  /\ pc = "loop"
  /\ idx <= Len(stackFrames)
  /\ Matched = [doc |-> 0, threw |-> FALSE]
  /\ matchCalls' = matchCalls + 1
  /\ matchLog' = Append(matchLog, Logged(0, FALSE))
  /\ results' = Append(results, UnmappedFrame(rev, stackFrames[idx]))
  /\ idx' = idx + 1
  /\ UNCHANGED <<app, rev, bias, sourceMaps, errorInfo, pc, stackFrames, matchedMap,
                 consumerCache, error, decodeCalls, queryLog, copied, superseded, others>>

\* Mutant: the exception of the matcher leaves the loop and rejects the call.
MatcherThrew_Rethrow ==
  /\ pc = "loop"
  /\ idx <= Len(stackFrames)
  /\ Matched.threw
  /\ matchCalls' = matchCalls + 1
  /\ matchLog' = Append(matchLog, Logged(0, TRUE))
  /\ pc' = "rejected"
  /\ error' = "frameError"
  /\ UNCHANGED <<app, rev, bias, sourceMaps, errorInfo, stackFrames, idx, matchedMap,
                 consumerCache, results, decodeCalls, queryLog, copied, superseded, others>>

\* A loop iteration in which findMatchingSourceMap throws: the catch block.
MatcherThrew ==
  /\ pc = "loop"
  /\ idx <= Len(stackFrames)
  /\ Matched.threw
  /\ matchCalls' = matchCalls + 1
  /\ matchLog' = Append(matchLog, Logged(0, TRUE))
  /\ results' = Append(results, CaughtFrame(rev, stackFrames[idx]))
  /\ idx' = idx + 1
  /\ UNCHANGED <<app, rev, bias, sourceMaps, errorInfo, pc, stackFrames, matchedMap,
                 consumerCache, error, decodeCalls, queryLog, copied, superseded, others>>

\* A loop iteration up to `await getConsumer(matchedMap.content)`.
FrameMatched ==
  /\ pc = "loop"
  /\ idx <= Len(stackFrames)
  /\ LET m == Matched.doc
     IN  /\ m # 0
         /\ matchedMap' = m
         /\ matchLog' = Append(matchLog, Logged(m, FALSE))
         /\ IF m \in consumerCache
              THEN pc' = "resolve" /\ UNCHANGED decodeCalls
              ELSE pc' = "decode" /\ decodeCalls' = Append(decodeCalls, m)
  /\ matchCalls' = matchCalls + 1
  /\ UNCHANGED <<app, rev, bias, sourceMaps, errorInfo, stackFrames, idx,
                 consumerCache, results, error, queryLog, copied, superseded, others>>

\* Mutant: the consumer is handed on and not put into the cache.
DecodeDone_NoCache ==
  /\ pc = "decode"
  /\ Constructible(sourceMaps[matchedMap].content)
  /\ pc' = "resolve"
  /\ UNCHANGED <<app, rev, bias, sourceMaps, errorInfo, stackFrames, idx, matchedMap,
                 consumerCache, results, error, matchCalls, decodeCalls,
                 queryLog, matchLog, copied, superseded, others>>

\* The callback of SourceMapConsumer.with: cache the consumer, resolve.
DecodeDone ==
  /\ pc = "decode"
  /\ Constructible(sourceMaps[matchedMap].content)
  /\ consumerCache' = consumerCache \cup {matchedMap}
  /\ pc' = "resolve"
  /\ UNCHANGED <<app, rev, bias, sourceMaps, errorInfo, stackFrames, idx, matchedMap,
                 results, error, matchCalls, decodeCalls, queryLog, matchLog,
                 copied, superseded, others>>

\* SourceMapConsumer.with rejects: nothing handles the rejection, the
\* callback never runs and the promise getConsumer returned stays pending.
DecodeFailed ==
  /\ pc = "decode"
  /\ ~Constructible(sourceMaps[matchedMap].content)
  /\ pc' = "pending"
  /\ UNCHANGED <<app, rev, bias, sourceMaps, errorInfo, stackFrames, idx, matchedMap,
                 consumerCache, results, error, matchCalls, decodeCalls,
                 queryLog, matchLog, copied, superseded, others>>

\* The rest of the iteration: the column search and the push.
FrameResolved ==
  /\ pc = "resolve"
  /\ ~QueryThrows(sourceMaps[matchedMap].content)
  /\ LET frame == stackFrames[idx]
         content == sourceMaps[matchedMap].content
     IN  /\ results' = Append(results, ResolveFrame(rev, frame, content, bias))
         /\ queryLog' = FindPosition(content, bias, QueryLine(frame),
                                     QueryColumn(frame)).queried
  /\ idx' = idx + 1
  /\ pc' = "loop"
  /\ UNCHANGED <<app, rev, bias, sourceMaps, errorInfo, stackFrames, matchedMap,
                 consumerCache, error, matchCalls, decodeCalls, matchLog,
                 copied, superseded, others>>

\* The rest of the iteration when the first query of the column search
\* throws: the catch block.
QueryThrew ==
  /\ pc = "resolve"
  /\ QueryThrows(sourceMaps[matchedMap].content)
  /\ results' = Append(results, CaughtFrame(rev, stackFrames[idx]))
  /\ queryLog' = <<uniqueColumns(QueryColumn(stackFrames[idx]))[1]>>
  /\ idx' = idx + 1
  /\ pc' = "loop"
  /\ UNCHANGED <<app, rev, bias, sourceMaps, errorInfo, stackFrames, matchedMap,
                 consumerCache, error, matchCalls, decodeCalls, matchLog,
                 copied, superseded, others>>

\* After the loop: throw on an empty results, else return results.
Return ==
  /\ pc = "loop"
  /\ idx > Len(stackFrames)
  /\ IF Len(results) = 0
       THEN pc' = "rejected" /\ error' = "noResults"
       ELSE pc' = "returned" /\ UNCHANGED error
  /\ UNCHANGED <<app, rev, bias, sourceMaps, errorInfo, stackFrames, idx, matchedMap,
                 consumerCache, results, matchCalls, decodeCalls, queryLog,
                 matchLog, copied, superseded, others>>

\* copyAllStack on the returned list: one formatted path per result.
copyAllStack ==
  /\ pc = "returned"
  /\ copied = <<>>
  /\ copied' = [i \in 1..Len(results) |-> formatPathForCopy(results[i].source)]
  /\ UNCHANGED <<app, rev, bias, sourceMaps, errorInfo, pc, stackFrames, idx,
                 matchedMap, consumerCache, results, error, matchCalls,
                 decodeCalls, queryLog, matchLog, superseded, others>>

(***************************************************************************)
(* App: the handlers of the documents and of the parse button.             *)
(***************************************************************************)
\* map => map && map.content
HasContent(map) == map.hasContent

\* No handler is running and none is due: the parse is not started, is at
\* `await getConsumer(...)`, or has been dealt with by handleParse.
AppIdle ==
  /\ app.mounted
  /\ \/ pc = "start" /\ ~app.isProcessing
     \/ pc \in {"decode", "resolve", "pending"}
     \/ pc \in {"returned", "rejected"} /\ ~app.isProcessing

\* The documents a user uploads while the App is open.
UploadPool == {DocApp, DocBad}

\* The parse and the documents are left as they are.
ParseUnchanged ==
  UNCHANGED <<rev, bias, sourceMaps, errorInfo, pc, stackFrames, idx,
              matchedMap, consumerCache, results, error, matchCalls,
              decodeCalls, queryLog, matchLog, copied, superseded, others>>

handleFileUpload ==
  /\ AppIdle
  /\ \E file \in UploadPool :
       app' = [app EXCEPT !.sourceMaps = <<file>>, !.parsedStack = NullFrames]
  /\ ParseUnchanged

handleMultipleFiles ==
  /\ AppIdle
  /\ \E files \in {<<DocApp, DocBad>>, <<DocMyApp, DocApp>>} :
       app' = [app EXCEPT !.sourceMaps = files, !.parsedStack = NullFrames]
  /\ ParseUnchanged

\* prev.filter((_, i) => i !== index)
handleRemoveFile ==
  /\ AppIdle
  /\ \E index \in 1..Len(app.sourceMaps) :
       app' = [app EXCEPT
                 !.sourceMaps = SubSeq(app.sourceMaps, 1, index - 1)
                                  \o SubSeq(app.sourceMaps, index + 1,
                                            Len(app.sourceMaps)),
                 !.parsedStack = NullFrames]
  /\ ParseUnchanged

handleClearAll ==
  /\ AppIdle
  /\ app' = [app EXCEPT !.sourceMaps = <<>>, !.parsedStack = NullFrames]
  /\ ParseUnchanged

\* A click on the parse button, which is disabled while isProcessing, with
\* no documents and with a blank text: handleParse up to its call of
\* parseSourceMap(validMaps, errorInfo).
handleParse ==
  /\ app.mounted
  /\ pc = "start"
  /\ ~app.isProcessing
  /\ Len(app.sourceMaps) > 0
  /\ ~IsBlankText(errorInfo)
  /\ LET validMaps == SelectSeq(app.sourceMaps, HasContent)
     IN  IF Len(validMaps) = 0
           THEN /\ app' = [app EXCEPT !.errorMessage = "noValidMaps"]
                /\ UNCHANGED sourceMaps
           ELSE /\ app' = [app EXCEPT !.errorMessage = "none",
                                      !.isProcessing = TRUE]
                /\ sourceMaps' = validMaps
  /\ UNCHANGED <<rev, bias, errorInfo, pc, stackFrames, idx, matchedMap,
                 consumerCache, results, error, matchCalls, decodeCalls,
                 queryLog, matchLog, copied, superseded, others>>

\* handleParse after `await parseSourceMap(...)`: the try block goes on, or
\* the catch block runs; then the finally block.
handleParseSettled ==
  /\ app.mounted
  /\ app.isProcessing
  /\ pc \in {"returned", "rejected"}
  /\ app' = IF pc = "returned"
              THEN [app EXCEPT !.parsedStack = Frames(results),
                               !.errorMessage = "none",
                               !.isProcessing = FALSE]
              ELSE [app EXCEPT !.parsedStack = NullFrames,
                               !.errorMessage = error,
                               !.isProcessing = FALSE]
  /\ ParseUnchanged

\* Where the running invocation is not inside synchronous code: before its
\* call, at `await getConsumer(...)`, or settled.
AtAwait == pc \in {"start", "decode", "resolve", "pending", "returned", "rejected"}

\* An invocation that has a step to take.
Runnable(inv) == inv.pc \in {"start", "decode", "resolve"}

\* Mutant: `results` is one list of the module, not a local of the call.
Switch_SharedResults ==
  /\ AtAwait
  /\ \E j \in 1..Len(others) :
       /\ Runnable(others[j])
       /\ others' = [others EXCEPT ![j] = Self]
       /\ sourceMaps' = others[j].sourceMaps
       /\ errorInfo' = others[j].errorInfo
       /\ pc' = others[j].pc
       /\ stackFrames' = others[j].stackFrames
       /\ idx' = others[j].idx
       /\ matchedMap' = others[j].matchedMap
       /\ consumerCache' = others[j].consumerCache
       /\ error' = others[j].error
       /\ matchCalls' = others[j].matchCalls
       /\ decodeCalls' = others[j].decodeCalls
       /\ queryLog' = others[j].queryLog
       /\ matchLog' = others[j].matchLog
       /\ copied' = others[j].copied
       /\ superseded' = others[j].superseded
  /\ UNCHANGED <<app, rev, bias, results>>

\* The event loop leaves the running invocation at an await and runs
\* another one: a first call of it, or the continuation of its await.
Switch ==
  /\ AtAwait
  /\ \E j \in 1..Len(others) :
       /\ Runnable(others[j])
       /\ others' = [others EXCEPT ![j] = Self]
       /\ sourceMaps' = others[j].sourceMaps
       /\ errorInfo' = others[j].errorInfo
       /\ pc' = others[j].pc
       /\ stackFrames' = others[j].stackFrames
       /\ idx' = others[j].idx
       /\ matchedMap' = others[j].matchedMap
       /\ consumerCache' = others[j].consumerCache
       /\ results' = others[j].results
       /\ error' = others[j].error
       /\ matchCalls' = others[j].matchCalls
       /\ decodeCalls' = others[j].decodeCalls
       /\ queryLog' = others[j].queryLog
       /\ matchLog' = others[j].matchLog
       /\ copied' = others[j].copied
       /\ superseded' = others[j].superseded
  /\ UNCHANGED <<app, rev, bias>>

Next ==
  \/ Validate
  \/ FrameUnmatched
  \/ MatcherThrew
  \/ FrameMatched
  \/ DecodeDone
  \/ DecodeFailed
  \/ FrameResolved
  \/ QueryThrew
  \/ Return
  \/ copyAllStack
  \/ Switch
  \/ handleFileUpload
  \/ handleMultipleFiles
  \/ handleRemoveFile
  \/ handleClearAll
  \/ handleParse
  \/ handleParseSettled

Spec == Init /\ [][Next]_vars

(***************************************************************************)
(* Properties.                                                             *)
(***************************************************************************)
\* The frames whose loop iteration has completed.
Processed == 1..(idx - 1)

\* The document (index, 0 for none) the matcher gives frame i.
MatchOf(i) == findMatchingSourceMap(rev, stackFrames[i].filename, sourceMaps)

\* C1: a call that returns has one result per parsed frame, in frame order:
\* result i carries the line, the column and (as originalSource) the
\* filename of the i-th frame the parser produced from the error text.
C1_OneResultPerFrameInOrder ==
  pc = "returned" =>
    /\ Len(results) = Len(ParseStack(errorInfo).frames)
    /\ \A i \in 1..Len(results) :
         /\ results[i].line = ParseStack(errorInfo).frames[i].line
         /\ results[i].column = ParseStack(errorInfo).frames[i].column
         /\ results[i].originalSource = ParseStack(errorInfo).frames[i].filename

\* A returned list of two frames, the first mapped and the second not.
C1_Witness ==
  /\ pc = "returned"
  /\ Len(results) = 2
  /\ results[1].hasMapping
  /\ ~results[2].hasMapping
  /\ results[1].originalSource # results[2].originalSource

\* Frame i is unresolved: no document matches its filename, or one matches
\* and no candidate column, nor column 0, has a position with a source.
Unresolved(i) ==
  \/ MatchOf(i) = 0
  \/ /\ Constructible(sourceMaps[MatchOf(i)].content)
     /\ LET cols == uniqueColumns(QueryColumn(stackFrames[i]))
        IN  \A c \in {cols[k] : k \in 1..Len(cols)} \cup {0} :
              originalPositionFor(sourceMaps[MatchOf(i)].content, bias,
                                  QueryLine(stackFrames[i]), c).source = <<>>

\* C2: an unresolved frame is not dropped: its result is there, with
\* hasMapping false, null originalLine and originalColumn, the compiled
\* filename as source and the compiled line and column.
C2_UnresolvedFrameKept ==
  \A i \in Processed :
    Unresolved(i) =>
      /\ i <= Len(results)
      /\ results[i].hasMapping = FALSE
      /\ results[i].originalLine = NULL
      /\ results[i].originalColumn = NULL
      /\ results[i].source = stackFrames[i].filename
      /\ results[i].line = stackFrames[i].line
      /\ results[i].column = stackFrames[i].column

\* A returned list holding a frame no document matched and a frame whose
\* document has no position with a source at any queried column.
C2_Witness ==
  /\ pc = "returned"
  /\ \E i \in Processed : MatchOf(i) = 0 /\ ~results[i].hasMapping
  /\ \E i \in Processed : MatchOf(i) # 0 /\ Unresolved(i) /\ ~results[i].hasMapping

\* C3 (as claimed): every result has hasMapping = (originalLine # null).
C3_HasMappingIffOriginalLine ==
  \A i \in 1..Len(results) :
    results[i].hasMapping = (results[i].originalLine # NULL)

\* The opening checks reject: no documents, blank text, or no frame parsed.
RejectedInput ==
  \/ Len(sourceMaps) = 0
  \/ IsBlankText(errorInfo)
  \/ Len(ParseStack(errorInfo).frames) = 0

\* C4: on no documents, blank text or zero parsed frames the call rejects
\* with the input error of the first failing check, and before that no
\* matcher call, no decode and no result has happened.
C4_InputErrorBeforeFrameWork ==
  RejectedInput =>
    /\ pc \in {"start", "rejected"}
    /\ matchCalls = 0
    /\ decodeCalls = <<>>
    /\ consumerCache = {}
    /\ results = <<>>
    /\ pc = "rejected" =>
         error = (IF Len(sourceMaps) = 0 THEN "noSourceMaps"
                  ELSE IF IsBlankText(errorInfo) THEN "noErrorInfo"
                  ELSE "unparseable")

\* A call with documents at hand rejected for its blank error text.
C4_Witness ==
  /\ pc = "rejected"
  /\ error = "noErrorInfo"
  /\ Len(sourceMaps) > 0
  /\ matchCalls = 0

\* C5 (as claimed): when the JSON dialect yields no frames and the text
\* dialect recognizes some, the call goes on with the text dialect's frames.
C5_TextDialectAfterEmptyJSON ==
  (/\ pc # "start"
   /\ Len(sourceMaps) > 0
   /\ ~IsBlankText(errorInfo)
   /\ Len(parseJSONStack(errorInfo).frames) = 0
   /\ ~parseTextStack(errorInfo).isNull)
    => /\ pc # "rejected"
       /\ stackFrames = parseTextStack(errorInfo).frames

\* C6: a result with a mapping reports a mapping of its document on the
\* queried line: the source and line as they are, the 0-based column plus
\* one.  With (1, 0) -> (src/app.ts, 10, 4), compiled (1, 50) of app.js
\* reports src/app.ts, line 10, column 5.
C6_LineAsIsColumnPlusOne ==
  \A i \in 1..Len(results) :
    /\ results[i].hasMapping =>
         /\ MatchOf(i) # 0
         /\ \E m \in sourceMaps[MatchOf(i)].content.mappings :
              /\ m.gl = QueryLine(stackFrames[i])
              /\ results[i].source = m.source
              /\ results[i].originalLine = m.line
              /\ m.column # NULL => results[i].originalColumn = m.column + 1
              /\ m.column = NULL => results[i].originalColumn = NULL
    /\ (/\ MatchOf(i) # 0
        /\ sourceMaps[MatchOf(i)] = DocApp
        /\ stackFrames[i].line = 1
        /\ stackFrames[i].column = 50)
         => /\ results[i].hasMapping
            /\ results[i].source = S_app
            /\ results[i].originalLine = 10
            /\ results[i].originalColumn = 5

\* Compiled (1, 50) resolved through app.js.map by an exact-only index.
C6_Witness ==
  /\ bias = "exact"
  /\ \E i \in 1..Len(results) :
       /\ MatchOf(i) # 0
       /\ sourceMaps[MatchOf(i)] = DocApp
       /\ stackFrames[i].line = 1
       /\ stackFrames[i].column = 50
       /\ results[i].originalColumn = 5

\* The mappings of frame i's document on the frame's line.
OnLine(i) ==
  {m \in sourceMaps[MatchOf(i)].content.mappings : m.gl = QueryLine(stackFrames[i])}

\* Frame i sits on a line whose only mapping is at column 0 (with a source).
OnlyColumnZero(i) ==
  /\ MatchOf(i) # 0
  /\ Cardinality(OnLine(i)) = 1
  /\ \A m \in OnLine(i) : m.gc = 0 /\ m.source # <<>>

\* C7: on a line whose only mapping is at column 0, every requested column
\* resolves to that mapping, whether the index answers by greatest lower
\* bound or by exact column only.
C7_ColumnZeroOnlyLineResolves ==
  \A i \in 1..Len(results) :
    OnlyColumnZero(i) =>
      \A m \in OnLine(i) :
        /\ results[i].hasMapping
        /\ results[i].source = m.source
        /\ results[i].originalLine = m.line
        /\ results[i].originalColumn = (IF m.column # NULL THEN m.column + 1 ELSE NULL)

\* An exact-only index, a column far from 0, and the line resolved.
C7_Witness ==
  /\ bias = "exact"
  /\ \E i \in 1..Len(results) :
       /\ OnlyColumnZero(i)
       /\ stackFrames[i].column = 50
       /\ results[i].hasMapping

\* The three rules of the matcher, on the names as the revision normalizes
\* them.
Normalized(name) == IF rev = 1 THEN normalize(name) ELSE getBaseName(name)

DocNames(map) ==
  (IF map.content.file # <<>> THEN {map.content.file} ELSE {})
    \cup {map.content.sources[k] : k \in 1..Len(map.content.sources)}

\* (1) a normalized name of the document equals the normalized target
Rule1(map, filename) ==
  \E n \in DocNames(map) : Normalized(n) = Normalized(filename)

\* (2) one normalized name contains the other
Rule2(map, filename) ==
  \E n \in DocNames(map) :
    \/ Includes(Normalized(n), Normalized(filename))
    \/ Includes(Normalized(filename), Normalized(n))

\* (3) a source entry contains the target's trailing segment
Rule3(map, filename) ==
  \E k \in 1..Len(map.content.sources) :
    Includes(map.content.sources[k], Normalized(filename))

Satisfying(Rule(_, _), filename) ==
  {d \in 1..Len(sourceMaps) : Rule(sourceMaps[d], filename)}

\* C8 (as claimed): a document satisfying rule (1) wins over every document
\* satisfying only rule (2) or (3), and one satisfying rule (2) over every
\* document satisfying only rule (3), wherever they are in upload order.
C8_RulePriorityAcrossDocuments ==
  \A i \in 1..Len(stackFrames) :
    LET fn == stackFrames[i].filename
    IN  /\ Satisfying(Rule1, fn) # {} => MatchOf(i) \in Satisfying(Rule1, fn)
        /\ (Satisfying(Rule1, fn) = {} /\ Satisfying(Rule2, fn) # {})
             => MatchOf(i) \in Satisfying(Rule2, fn)

\* The rule that wins for a filename: the first rule some document satisfies.
Winners(filename) ==
  IF Satisfying(Rule1, filename) # {} THEN Satisfying(Rule1, filename)
  ELSE IF Satisfying(Rule2, filename) # {} THEN Satisfying(Rule2, filename)
  ELSE Satisfying(Rule3, filename)

\* C9 (as claimed): the result is one of the supplied documents or none;
\* it is the earliest document satisfying the winning rule, and none
\* exactly when no document satisfies any rule.
C9_EarliestOfWinningRule ==
  \A i \in 1..Len(stackFrames) :
    LET fn == stackFrames[i].filename
    IN  /\ MatchOf(i) \in 0..Len(sourceMaps)
        /\ (MatchOf(i) = 0) = (Winners(fn) = {})
        /\ MatchOf(i) # 0 =>
             /\ MatchOf(i) \in Winners(fn)
             /\ \A d \in Winners(fn) : MatchOf(i) <= d

\* Some action of Next is enabled: the opening checks, a loop iteration or
\* the return, the settling of a decode, the column search.  At "pending"
\* the awaited promise has no callback left that could settle it.
CanStep == pc \in {"start", "loop", "decode", "resolve"}

\* C10 (as claimed): a document that fails to decode does not stop the
\* call: the invocation can always take its next step until it has returned
\* or rejected, and a processed frame whose document failed to decode has
\* its unmapped result.
C10_DecodeFailureDowngrades ==
  /\ pc \notin {"returned", "rejected"} => CanStep
  /\ \A i \in Processed :
       (MatchOf(i) # 0 /\ ~Constructible(sourceMaps[MatchOf(i)].content))
         => /\ i <= Len(results)
            /\ results[i].hasMapping = FALSE
            /\ results[i].line = stackFrames[i].line
            /\ results[i].column = stackFrames[i].column

\* Frame i met a failure while being resolved: the matcher threw, or the
\* first query of the index of its document threw.
Failed(i) ==
  LET found == MatchOutcome(rev, stackFrames[i].filename, sourceMaps)
  IN  \/ found.threw
      \/ /\ found.doc # 0
         /\ Constructible(sourceMaps[found.doc].content)
         /\ QueryThrows(sourceMaps[found.doc].content)

\* What frame i comes to where nothing fails.
Unfailed(i) ==
  IF MatchOf(i) = 0
    THEN UnmappedFrame(rev, stackFrames[i])
    ELSE ResolveFrame(rev, stackFrames[i], sourceMaps[MatchOf(i)].content, bias)

\* C11: a failure while one frame is resolved (the matcher or a query of the
\* index throwing) is caught for that frame alone: its result has hasMapping
\* false and the compiled location, every other processed frame has the
\* result it has without the failure, and the call rejects for its input
\* only, never for the failure.
C11_FrameFailureCaught ==
  /\ pc = "rejected" => RejectedInput
  /\ \A i \in Processed :
       /\ i <= Len(results)
       /\ Failed(i) =>
            /\ results[i].hasMapping = FALSE
            /\ results[i].originalLine = NULL
            /\ results[i].originalColumn = NULL
            /\ results[i].source = stackFrames[i].filename
            /\ results[i].line = stackFrames[i].line
            /\ results[i].column = stackFrames[i].column
       /\ ~Failed(i) => results[i] = Unfailed(i)

\* A returned list of three frames: the middle one failed, the frames
\* before and after it are resolved to their mappings.
C11_Witness ==
  /\ pc = "returned"
  /\ Len(results) = 3
  /\ Failed(2)
  /\ results[1].hasMapping
  /\ ~results[2].hasMapping
  /\ results[3].hasMapping

\* An array entry as C12 calls it well formed: a JSON object with a
\* non-empty filename under filename or source and a positive line under
\* lineno or line.
WellFormedEntry(item) ==
  /\ item.kind = "object"
  /\ item.filename # <<>> \/ item.source # <<>>
  /\ item.lineno > 0 \/ item.line > 0

\* C12 (as claimed): for a JSON array the parser gives exactly the well
\* formed entries, in input order: an array holding a well formed entry is
\* not rejected, and the frames are those of its well formed entries.
C12_ArrayKeepsWellFormedEntries ==
  (/\ pc # "start"
   /\ Len(sourceMaps) > 0
   /\ errorInfo.form = "array"
   /\ \E k \in 1..Len(errorInfo.body) : WellFormedEntry(errorInfo.body[k]))
    => /\ pc # "rejected"
       /\ LET kept == SelectSeq(errorInfo.body, WellFormedEntry)
          IN  stackFrames = [k \in 1..Len(kept) |-> FrameOfItem(kept[k])]

\* The frame a text line stands for, read by its form: "at FUNC
\* (FILE:LINE:COL)", else "at FILE:LINE:COL", else a bare "FILE:LINE:COL"
\* that is the whole line; <<>> for a blank line and for any other line.
FrameOfLine(l) ==
  CASE l.shape = "atFuncParen" ->
         <<[filename |-> l.filename, function |-> l.function,
            line |-> l.line, column |-> l.column]>>
    [] l.shape = "atFile" ->
         <<[filename |-> l.filename, function |-> <<>>,
            line |-> l.line, column |-> l.column]>>
    [] l.shape = "bare" /\ ~l.quoted ->
         <<[filename |-> l.filename, function |-> <<>>,
            line |-> l.line, column |-> l.column]>>
    [] OTHER -> <<>>

\* The frames of the first n lines, in line order.
RECURSIVE FramesOfLines(_, _)
FramesOfLines(lines, n) ==
  IF n = 0 THEN <<>> ELSE FramesOfLines(lines, n - 1) \o FrameOfLine(lines[n])

\* C13: in the text dialect every line gives at most one frame, decided by
\* the first of the three forms it has, the frames come in line order, and
\* a blank or other line (an "Error: ..." header) gives none and is no
\* error: the call is rejected only when no line gives a frame.
C13_TextLineFirstPatternWins ==
  (/\ pc # "start"
   /\ Len(sourceMaps) > 0
   /\ ~IsBlankText(errorInfo)
   /\ errorInfo.form = "text")
    => LET expected == FramesOfLines(errorInfo.body, Len(errorInfo.body))
       IN  IF expected = <<>>
             THEN pc = "rejected" /\ error = "unparseable"
             ELSE pc # "rejected" /\ stackFrames = expected

\* A header line and an "at FUNC (FILE:LINE:COL)" line: one frame, resolved.
C13_Witness ==
  /\ pc = "returned"
  /\ errorInfo.form = "text"
  /\ Len(errorInfo.body) = 2
  /\ errorInfo.body[1].shape = "other"
  /\ errorInfo.body[2].shape = "atFuncParen"
  /\ Len(results) = 1
  /\ results[1].functionName = errorInfo.body[2].function
  /\ results[1].originalSource = errorInfo.body[2].filename

\* C14 (as claimed): every frame the parser hands to the loop has a line
\* greater than 0, whichever way it was parsed: an entry of a JSON array, a
\* bare JSON object or a text line.
C14_FrameLinePositive ==
  \A i \in 1..Len(stackFrames) : stackFrames[i].line > 0

\* C15 (as claimed): a bare JSON object parses to the frame the one-element
\* array wrapping it parses to, whichever key carries the file name.
C15_BareObjectAsOneElementArray ==
  (/\ pc # "start"
   /\ Len(sourceMaps) > 0
   /\ errorInfo.form = "object"
   /\ Len(parseJSONStack(Text("array", errorInfo.body)).frames) = 1)
    => /\ pc # "rejected"
       /\ stackFrames = parseJSONStack(Text("array", errorInfo.body)).frames

\* C16: formatPathForCopy is idempotent: a path it has made is left as it is
\* when it is formatted again, also where the input began with repeated
\* "./" or "../", with the alias "~/scripts/" or with several slashes, or
\* had "src/" inside a longer segment name.
C16_FormatPathIdempotent ==
  \A i \in 1..Len(copied) : formatPathForCopy(copied[i]) = copied[i]

\* A copied path whose source began with "./" twice, and one whose source
\* had "src/" at the end of a longer segment name.
C16_Witness ==
  /\ copied # <<>>
  /\ \E i \in 1..Len(copied) :
       /\ copied[i] # results[i].source
       /\ \/ StartsWith(results[i].source, Str_here \o Str_here)
          \/ /\ IndexOf(results[i].source, <<"y">> \o Str_src) # 0
             /\ IndexOf(results[i].source, Str_slash \o Str_src) = 0

\* All invocations: the running one and the ones that are not running.
Invocations == {Self} \cup {others[j] : j \in 1..Len(others)}

\* What the i-th frame of an invocation's own error text comes to with the
\* invocation's own documents.
OwnResult(inv, i) ==
  LET frame == ParseStack(inv.errorInfo).frames[i]
      found == MatchOutcome(rev, frame.filename, inv.sourceMaps)
  IN  IF found.threw THEN CaughtFrame(rev, frame)
      ELSE IF found.doc = 0 THEN UnmappedFrame(rev, frame)
      ELSE IF QueryThrows(inv.sourceMaps[found.doc].content)
        THEN CaughtFrame(rev, frame)
        ELSE ResolveFrame(rev, frame, inv.sourceMaps[found.doc].content, bias)

\* The list of an invocation holds nothing but results of its own frames
\* with its own documents, in frame order.
OwnFramesOnly(inv) ==
  /\ Len(inv.results) <= Len(ParseStack(inv.errorInfo).frames)
  /\ \A i \in 1..Len(inv.results) : inv.results[i] = OwnResult(inv, i)

\* C17 (as claimed): the results of different invocations are never merged,
\* also when a call is made while another invocation is suspended at a
\* decode, and the list of a superseded invocation is discarded: the
\* invocation does not return it.
C17_NeverMergedSupersededDiscarded ==
  \A inv \in Invocations :
    /\ OwnFramesOnly(inv)
    /\ inv.superseded => inv.pc # "returned"

\* C18: the matcher gives the same outcome for the same document list and
\* filename on every call, in whichever invocation; and two invocations
\* with the same documents and the same error text that have both settled
\* have settled alike, with equal result lists, whatever other calls ran in
\* between.
C18_DeterministicAndIndependent ==
  \A a \in Invocations, b \in Invocations :
    /\ a.sourceMaps = b.sourceMaps =>
         \A i \in 1..Len(a.matchLog), j \in 1..Len(b.matchLog) :
           a.matchLog[i].filename = b.matchLog[j].filename
             => a.matchLog[i] = b.matchLog[j]
    /\ (/\ a.sourceMaps = b.sourceMaps
        /\ a.errorInfo = b.errorInfo
        /\ a.pc \in {"returned", "rejected"}
        /\ b.pc \in {"returned", "rejected"})
         => /\ a.pc = b.pc
            /\ a.error = b.error
            /\ a.results = b.results

\* Three invocations: two with the same arguments have both returned, the
\* third, with other documents, was called while one of them was suspended.
C18_Witness ==
  /\ Len(others) = 2
  /\ pc = "returned"
  /\ \E j \in 1..2, k \in 1..2 :
       /\ j # k
       /\ others[j].sourceMaps = sourceMaps
       /\ others[j].errorInfo = errorInfo
       /\ others[j].pc = "returned"
       /\ others[j].results = results
       /\ others[k].sourceMaps # sourceMaps
       /\ others[k].pc = "returned"
       /\ superseded \/ others[j].superseded

\* The candidate columns of C19 for a 0-based column col0: col0, 0, col0-1,
\* col0-2 (where not negative), col0+1, col0+2, without duplicates.
Candidates(col0) ==
  {col0, col0 + 1, col0 + 2} \cup {c \in {0, col0 - 1, col0 - 2} : c >= 0}

\* Candidate c is queried before candidate d: it is nearer to col0, or as
\* near and the smaller of the two.
Before(c, d, col0) ==
  \/ Abs(c - col0) < Abs(d - col0)
  \/ Abs(c - col0) = Abs(d - col0) /\ c < d

\* The candidates in the order of their queries.
CandidateOrder(col0) ==
  [k \in 1..Cardinality(Candidates(col0)) |->
     CHOOSE c \in Candidates(col0) :
       Cardinality({d \in Candidates(col0) : Before(d, c, col0)}) = k - 1]

\* The frame whose column search ran last.
LastSearched ==
  LET searched == {i \in Processed : matchLog[i].doc # 0}
  IN  IF searched = {} THEN 0
      ELSE CHOOSE i \in searched : \A j \in searched : j <= i

\* C19: the column search queries the candidates nearest first, the lower
\* column first among two as near (50, 49, 51, 48, 52, 0 for col0 = 50;
\* 2, 1, 3, 0, 4 for 2; 0, 1, 2 for 0), takes the first candidate that has
\* a position with a source and queries no candidate after it.
C19_NearestFirstStopsAtFirstHit ==
  (LastSearched # 0 /\ ~QueryThrows(sourceMaps[MatchOf(LastSearched)].content)) =>
    LET frame == stackFrames[LastSearched]
        content == sourceMaps[MatchOf(LastSearched)].content
        col0 == QueryColumn(frame)
        order == CandidateOrder(col0)
        At(k) == originalPositionFor(content, bias, QueryLine(frame), order[k])
        hits == {k \in 1..Len(order) : At(k).source # <<>>}
        first == CHOOSE k \in hits : \A j \in hits : k <= j
    IN  /\ col0 = 50 => order = <<50, 49, 51, 48, 52, 0>>
        /\ col0 = 2 => order = <<2, 1, 3, 0, 4>>
        /\ col0 = 0 => order = <<0, 1, 2>>
        /\ IF hits # {}
             THEN /\ queryLog = SubSeq(order, 1, first)
                  /\ results[LastSearched].hasMapping
                  /\ results[LastSearched].source = At(first).source
                  /\ results[LastSearched].originalLine = At(first).line
             ELSE /\ SubSeq(queryLog, 1, Len(order)) = order
                  /\ ~results[LastSearched].hasMapping

\* An index that answers exact columns only, compiled column 51 on a line
\* mapped at column 0 alone: all six candidates queried, the last one hits.
C19_Witness ==
  /\ bias = "exact"
  /\ LastSearched # 0
  /\ QueryColumn(stackFrames[LastSearched]) = 50
  /\ queryLog = <<50, 49, 51, 48, 52, 0>>
  /\ results[LastSearched].hasMapping

\* C20: within one invocation SourceMapConsumer.with is called at most once
\* per document: a frame whose document has no consumer yet triggers the
\* decode, every later frame of that document takes the cached consumer.
C20_DecodedAtMostOnce ==
  \A inv \in Invocations :
    /\ \A i \in 1..Len(inv.decodeCalls), j \in 1..Len(inv.decodeCalls) :
         inv.decodeCalls[i] = inv.decodeCalls[j] => i = j
    /\ inv.consumerCache \subseteq {inv.decodeCalls[i] : i \in 1..Len(inv.decodeCalls)}
    /\ \A i \in 1..Len(inv.matchLog) :
         inv.matchLog[i].doc # 0 =>
           \E j \in 1..Len(inv.decodeCalls) : inv.decodeCalls[j] = inv.matchLog[i].doc

\* A returned list with two frames resolved through one document, decoded
\* once.
C20_Witness ==
  /\ pc = "returned"
  /\ Len(decodeCalls) = 1
  /\ \E i \in 1..Len(matchLog), j \in 1..Len(matchLog) :
       /\ i < j
       /\ matchLog[i].doc = decodeCalls[1]
       /\ matchLog[j].doc = decodeCalls[1]
       /\ results[i].hasMapping
       /\ results[j].hasMapping

(***************************************************************************)
(* Columns.                                                                *)
(***************************************************************************)
\* C21: no column is negative: the column of every parsed frame, the
\* compiled column and the original column (when there is one) of every
\* result, and every column the index was queried at; and the first query of
\* a frame that has a document is at max(0, column - 1).
C21_ColumnsNonNegative ==
  /\ \A i \in 1..Len(stackFrames) : stackFrames[i].column >= 0
  /\ \A i \in 1..Len(results) :
       /\ results[i].column >= 0
       /\ results[i].originalColumn # NULL => results[i].originalColumn >= 0
  /\ \A k \in 1..Len(queryLog) : queryLog[k] >= 0
  /\ (pc = "loop" /\ idx > 1 /\ matchLog[idx - 1].doc # 0)
       => queryLog[1] = Max(0, stackFrames[idx - 1].column - 1)

(***************************************************************************)
(* Line-only text lines.                                                   *)
(***************************************************************************)
\* The lines of the text that carry a line number and no column.
LineOnlyLines ==
  IF errorInfo.form # "text" THEN {}
  ELSE {k \in 1..Len(errorInfo.body) :
          errorInfo.body[k].shape \in {"bareLineOnly", "atFuncParenLineOnly"}}

\* C22 (as claimed): a text line "FILE:LINE" or "at FUNC (FILE:LINE)" gives a
\* frame with that file name and line and column 0, and the returned list
\* has a result for that frame.
C22_LineOnlyVariantsRecognized ==
  \A k \in LineOnlyLines :
    LET l == errorInfo.body[k]
    IN  /\ (pc # "start" /\ Len(sourceMaps) > 0)
             => /\ pc # "rejected"
                /\ \E i \in 1..Len(stackFrames) :
                     /\ stackFrames[i].filename = l.filename
                     /\ stackFrames[i].line = l.line
                     /\ stackFrames[i].column = 0
        /\ pc = "returned"
             => \E i \in 1..Len(results) :
                  /\ results[i].originalSource = l.filename
                  /\ results[i].line = l.line
                  /\ results[i].column = 0

(***************************************************************************)
(* The path normalizer.                                                    *)
(***************************************************************************)
\* C23 (as claimed): the leading "../", "./" and "~/scripts/" are stripped
\* until none is left: no formatted path is a slash put before "./", "../"
\* or "~/scripts/".
C23_LeadingMarkersStrippedUntilNone ==
  \A i \in 1..Len(copied) :
    /\ ~StartsWith(copied[i], Str_slash \o Str_here)
    /\ ~StartsWith(copied[i], Str_slash \o Str_up)
    /\ ~StartsWith(copied[i], Str_slash \o Str_scripts)

\* C24 (as claimed): the path is cut only at a segment "src": from the first
\* "/src/" on when the stripped path has one, a slash and the path when the
\* stripped path begins with "src/", and otherwise nothing is cut, also
\* where "src/" ends a longer segment name.
C24_TruncatedOnlyAtMarkerSegment ==
  \A i \in 1..Len(copied) :
    LET s == StripLeading(results[i].source)
        srcIndex == IndexOf(s, Str_slash \o Str_src)
    IN  CASE srcIndex # 0 -> copied[i] = SubSeq(s, srcIndex, Len(s))
          [] srcIndex = 0 /\ StartsWith(s, Str_src) -> copied[i] = Str_slash \o s
          [] OTHER -> copied[i] \in {s, Str_slash \o s}

\* C25 (as claimed): the formatted path of a non-empty path begins with one
\* slash and no more.
C25_ExactlyOneLeadingSlash ==
  \A i \in 1..Len(copied) :
    results[i].source # <<>>
      => /\ StartsWith(copied[i], Str_slash)
         /\ ~StartsWith(copied[i], Str_slash \o Str_slash)

(***************************************************************************)
(* The message of the input error.                                         *)
(***************************************************************************)
\* t is the text u or the text of the first lines of u.
IsPrefixOfText(t, u) ==
  /\ t.form = u.form
  /\ Len(t.body) <= Len(u.body)
  /\ SubSeq(u.body, 1, Len(t.body)) = t.body

\* C26 (as claimed): the message of the error thrown when no frame is
\* recognized ends with an example of an error text that does parse, and
\* has the rejected error text, or its beginning, in it.
C26_InputErrorCarriesText ==
  (pc = "rejected" /\ error = "unparseable")
    => LET m == Message(error, errorInfo)
       IN  /\ m.example # <<>>
           /\ InputError(sourceMaps, m.example[1]) = "none"
           /\ m.errorText # <<>>
           /\ IsPrefixOfText(m.errorText[1], errorInfo)

(***************************************************************************)
(* The last query at column 0.                                             *)
(***************************************************************************)
\* The frame pushed if the column search ended with its candidate loop.
ResolveFrame_CandidatesOnly(r, frame, content, b) ==
  LET tried == TryEach(content, b, QueryLine(frame),
                       uniqueColumns(QueryColumn(frame)), 1)
  IN  IF tried.position.source # <<>>
        THEN MappedFrame(r, frame, content, tried.position)
        ELSE UnmappedFrame(r, frame)

\* The frame resolved last went through the column search.
JustSearched ==
  /\ pc = "loop"
  /\ idx > 1
  /\ matchLog[idx - 1].doc # 0
  /\ ~QueryThrows(sourceMaps[matchLog[idx - 1].doc].content)

\* C27: column 0 is one of the candidates of every frame, so the query at
\* column 0 that follows a failed candidate loop repeats a query already
\* answered: the frame pushed is the one the candidate loop alone would have
\* given, and a frame costs at most 7 queries.
C27_LastResortChangesNothing ==
  JustSearched
    => LET frame == stackFrames[idx - 1]
           content == sourceMaps[matchLog[idx - 1].doc].content
           cols == uniqueColumns(QueryColumn(frame))
       IN  /\ \E k \in 1..Len(cols) : cols[k] = 0
           /\ results[idx - 1] = ResolveFrame_CandidatesOnly(rev, frame, content, bias)
           /\ Len(queryLog) <= 7

\* A frame at column 50 of a line with no mapping an exact query finds: six
\* candidates and the last query, all without a source.
C27_Witness ==
  /\ JustSearched
  /\ Len(queryLog) = 7
  /\ queryLog[7] = 0
  /\ \E k \in 1..6 : queryLog[k] = 0
  /\ ~results[idx - 1].hasMapping

(***************************************************************************)
(* Matching on an empty name.                                              *)
(***************************************************************************)
\* One of a and b is in the other, and the one inside is not empty.
NonEmptyContainment(a, b) ==
  \/ a # <<>> /\ Includes(b, a)
  \/ b # <<>> /\ Includes(a, b)

\* The target as written and as normalized.
TargetForms(filename) == {filename, Normalized(filename)}

\* The names of a document as written, as normalized, and their last
\* segments.
DocForms(map) ==
  UNION {{n, Normalized(n), LastSegment(n)} : n \in DocNames(map)}

\* C28 (as claimed): the matcher returns a document only where the target
\* and one of the document's names are equal or one contains the other and
\* the name inside is not empty; never because a name is empty.
C28_NeverMatchesOnEmptyName ==
  \A i \in 1..Len(matchLog) :
    matchLog[i].doc # 0
      => \E t \in TargetForms(matchLog[i].filename),
            n \in DocForms(sourceMaps[matchLog[i].doc]) :
           NonEmptyContainment(t, n)

(***************************************************************************)
(* App: the displayed result and the documents.                            *)
(***************************************************************************)
\* C29 (as claimed): the result App displays was computed from the
\* documents App holds: a change of the documents sets parsedStack to null,
\* and a parse that was in flight at the change does not set it again.
C29_ResultNeverOutlivesDocuments ==
  (app.mounted /\ ~app.parsedStack.isNull)
    => SelectSeq(app.sourceMaps, HasContent) = sourceMaps

(***************************************************************************)
(* Termination.                                                            *)
(***************************************************************************)
\* The promise parseSourceMap returned has resolved or rejected.
Settled(inv) == inv.pc \in {"returned", "rejected"}

\* The call has a step to take: its first, one of its loop, or the
\* continuation of an await whose promise settles.
HasStep(inv) == inv.pc \in {"start", "loop", "decode", "resolve"}

\* C30 (as claimed): every call of parseSourceMap goes on until it resolves
\* or rejects, none is left waiting for a promise that never settles; so
\* while isProcessing is true the parse App waits for has a step to take or
\* has settled, and handleParse sets isProcessing back to false.
C30_EveryParseTerminates ==
  /\ \A inv \in Invocations : Settled(inv) \/ HasStep(inv)
  /\ app.isProcessing => (HasStep(Self) \/ Settled(Self))
====
